---- MODULE Spec2Model ----
(***************************************************************************)
(* Model of predict_mobile_lstm.py: the single-sample predict function,    *)
(* the batched predict_generator driver and the main script that runs four *)
(* pretrained models over two feature directories and fuses their output.  *)
(*                                                                         *)
(* Class indices are 0-based as in the code (numpy / pandas); sequences    *)
(* are 1-based, so row i of an array is index i and class c is entry c+1.  *)
(* Real numbers are kept exact: an accuracy is a fraction [num, den], the  *)
(* exponential is a fixed-point table in thousandths.                      *)
(***************************************************************************)
EXTENDS Integers, Sequences, FiniteSets, TLC

\* largest number of feature files a feature directory holds
MaxSamples == 2

\* largest probability (in the model's unit) in the vector predict receives
MaxProba == 2

\* largest nTop predict is called with
MaxTop == 3

VARIABLES
    dirs,     \* file system: feature directory -> the labels of its samples, in generator order
    pc,       \* position of main
    ret,      \* model -> the 4-tuple predict_generator returned to main, or NoRet
    fused,    \* fusion step -> [arPred, fAcc] computed by main, or NoRet
    log,      \* console and framework events, in order
    err,      \* the ValueError that ended the run, or NoError
    pr        \* one call of predict: its inputs, then its outcome

vars == <<dirs, pc, ret, fused, log, err, pr>>

\* nothing was returned: the call has not happened or it raised
NoRet == [returned |-> FALSE]

NoTuple == <<>>
NoError == "NoError"

-----------------------------------------------------------------------------
(* The class table (VideoClasses.dfClass) read from class.csv.              *)

dfClass ==
    << [sClass |-> "A", sDetail |-> "alpha"],
       [sClass |-> "B", sDetail |-> "beta"] >>

nClasses == Len(dfClass)

ClassIds == 0 .. (nClasses - 1)

\* oClasses.dfClass.sClass[nLabel]
sClassOf(nLabel) == dfClass[nLabel + 1].sClass

\* oClasses.liClasses
liClasses == { dfClass[i].sClass : i \in 1 .. nClasses }

-----------------------------------------------------------------------------
(* numpy helpers                                                            *)

RECURSIVE SumSeq(_)
SumSeq(s) == IF s = <<>> THEN 0 ELSE Head(s) + SumSeq(Tail(s))

\* np.exp in thousandths: e^0 = 1.000, e^(x+1) = e^x * 2.718
RECURSIVE npExp(_)
npExp(x) == IF x = 0 THEN 1000 ELSE (npExp(x - 1) * 2718) \div 1000

\* row.argmax(): 0-based index of the first maximum
ArgMax(row) ==
    (CHOOSE i \in 1 .. Len(row) :
        /\ \A j \in 1 .. Len(row) : row[j] <= row[i]
        /\ \A j \in 1 .. (i - 1) : row[j] < row[i]) - 1

\* ar.argmax(axis=1)
ArgMaxRows(ar) == [i \in 1 .. Len(ar) |-> ArgMax(ar[i])]

\* a + b for two arrays of the same shape
AddArrays(a, b) ==
    [i \in 1 .. Len(a) |-> [c \in 1 .. Len(a[i]) |-> a[i][c] + b[i][c]]]

RECURSIVE SumArrays(_)
SumArrays(liArrays) ==
    IF Len(liArrays) = 1 THEN Head(liArrays)
    ELSE AddArrays(Head(liArrays), SumArrays(Tail(liArrays)))

\* np.exp(ar) / np.sum(np.exp(ar), axis=1).reshape(-1,1), in millionths
Softmax(ar) ==
    [i \in 1 .. Len(ar) |->
        LET arExp == [c \in 1 .. Len(ar[i]) |-> npExp(ar[i][c])]
        IN  [c \in 1 .. Len(ar[i]) |-> (arExp[c] * 1000) \div SumSeq(arExp)]]

\* faulty variant: every sample counted as a hit
MeanAll(liLabels, arPred) ==
    [num |-> Len(liLabels), den |-> Len(liLabels)]

\* list == Series compares position by position and needs equal lengths
LengthsMatch(liLabels, arPred) == Len(liLabels) = Len(arPred)

\* np.mean(liLabels == oClasses.dfClass.loc[arPred, "sClass"]) as a fraction
Mean(liLabels, arPred) ==
    [num |-> Cardinality({ i \in 1 .. Len(liLabels) : liLabels[i] = sClassOf(arPred[i]) }),
     den |-> Len(liLabels)]

\* "%.2f%%" % (fAcc * 100.): hundredths of a percent, rounded to nearest;
\* the mean of no values is nan, written -1 here
Percent(fAcc) ==
    IF fAcc.den = 0 THEN -1
    ELSE (fAcc.num * 20000 + fAcc.den) \div (2 * fAcc.den)

-----------------------------------------------------------------------------
(* Inputs of a run                                                          *)

\* the four saved models, by the suffix of main's variables
Models == {"image_best", "image_last", "oflow_best", "oflow_last"}

FeatureDirs == {"image", "oflow"}

\* sImageFeatureDir for the image models, sOflowFeatureDir for the flow models
FeatureDir(sModel) ==
    IF sModel \in {"image_best", "image_last"} THEN "image" ELSE "oflow"

\* label lists a feature directory can hold
LabelLists == UNION { [1 .. n -> liClasses] : n \in 0 .. MaxSamples }

\* output rows of a model, restricted to the rows that put all probability
\* mass on one class; sums of two or four such rows tie or differ by 2 or 4
ProbaRows == { [c \in 1 .. nClasses |-> IF c = k THEN 1 ELSE 0] : k \in 1 .. nClasses }

\* arrays keModel.predict_generator can return: any number of rows
ProbaArrays == UNION { [1 .. n -> ProbaRows] : n \in 0 .. (MaxSamples + 1) }

-----------------------------------------------------------------------------
(* predict_generator                                                        *)

\* FeaturesGenerator(sFeatureDir, ..., bShuffle = False): the samples found
\* in the directory, in a fixed order
FeaturesGenerator(sFeatureDir) ==
    [nSamples |-> Len(dirs[sFeatureDir]), dfSamples |-> dirs[sFeatureDir]]

\* faulty variant: the empty directory is not detected
NoFeatureFilesNever(genFeatures) == FALSE

\* if genFeatures.nSamples == 0: raise
NoFeatureFiles(genFeatures) == genFeatures.nSamples = 0

\* faulty variant: only too few rows are detected
UnexpectedCountFewer(arProba, genFeatures) == Len(arProba) < genFeatures.nSamples

\* if arProba.shape[0] != genFeatures.nSamples: raise
UnexpectedCount(arProba, genFeatures) == Len(arProba) # genFeatures.nSamples

\* One call; arProbaOut is what keModel.predict_generator would return.
\* events: what the call did before it returned or raised.
predict_generator(sFeatureDir, sModelPath, arProbaOut) ==
    LET genFeatures == FeaturesGenerator(sFeatureDir)
        evLoad == << [ev |-> "load", what |-> sModelPath, val |-> 0] >>
        evInfer == << [ev |-> "infer", what |-> sModelPath, val |-> Len(arProbaOut)] >>
        arPred == ArgMaxRows(arProbaOut)
        liLabels == genFeatures.dfSamples
    IN  IF NoFeatureFiles(genFeatures)
        THEN [events |-> evLoad, ret |-> NoRet,
              raised |-> "No feature files detected, prediction stopped"]
        ELSE IF UnexpectedCount(arProbaOut, genFeatures)
        THEN [events |-> evLoad \o evInfer, ret |-> NoRet,
              raised |-> "Unexpected number of predictions"]
        ELSE IF ~LengthsMatch(liLabels, arPred)
        THEN [events |-> evLoad \o evInfer, ret |-> NoRet,
              raised |-> "Lengths must match to compare"]
        ELSE [events |-> evLoad \o evInfer, raised |-> NoError,
              ret |-> [fAcc |-> Mean(liLabels, arPred), arPred |-> arPred,
                       arProba |-> arProbaOut, liLabels |-> liLabels]]

-----------------------------------------------------------------------------
(* main                                                                     *)

Steps ==
    << "image_best", "image_last", "oflow_best", "oflow_last",
       "check", "fuse_last", "fuse_oflow", "fuse_all", "done" >>

\* faulty variant: the four-model fusion reported first
StepsFourFirst ==
    << "image_best", "image_last", "oflow_best", "oflow_last",
       "check", "fuse_all", "fuse_last", "fuse_oflow", "done" >>

StepAfter(liSteps, p) ==
    liSteps[(CHOOSE i \in 1 .. Len(liSteps) : liSteps[i] = p) + 1]

NextPcFourFirst(p) == StepAfter(StepsFourFirst, p)

\* the statement of main that follows statement p
NextPc(p) == StepAfter(Steps, p)

\* faulty variant: the error is noted and the statement runs again
RaiseAndRetry(sMsg) == pc' = pc /\ err' = sMsg

\* raise ValueError(sMsg): nothing catches it, the run ends
Raise(sMsg) == pc' = "error" /\ err' = sMsg

\* print("... accuracy: %.2f%%" % (fAcc * 100.))
PrintAcc(sWhat, fAcc) == << [ev |-> "print", what |-> sWhat, val |-> Percent(fAcc)] >>

\* fAcc_m, _, arProba_m, liLabels_m = predict_generator(...); print(...)
MainPredict(sModel) ==
    /\ pc = sModel
    /\ \E arProbaOut \in ProbaArrays :
          LET r == predict_generator(FeatureDir(sModel), sModel, arProbaOut)
          IN  IF r.raised # NoError
              THEN /\ Raise(r.raised)
                   /\ log' = log \o r.events
                   /\ UNCHANGED <<ret, fused>>
              ELSE /\ pc' = NextPc(sModel)
                   /\ ret' = [ret EXCEPT ![sModel] = r.ret]
                   /\ log' = log \o r.events \o PrintAcc(sModel, r.ret.fAcc)
                   /\ UNCHANGED <<err, fused>>
    /\ UNCHANGED <<dirs, pr>>

PredictImageBest == MainPredict("image_best")
PredictImageLast == MainPredict("image_last")
PredictOflowBest == MainPredict("oflow_best")
PredictOflowLast == MainPredict("oflow_last")

\* faulty variant: only the numbers of labels are compared
LabelsDifferInLength(liA, liB) == Len(liA) # Len(liB)

\* liLabels_image_best != liLabels_oflow_best
LabelsDiffer(liA, liB) == liA # liB

\* if liLabels_image_best != liLabels_oflow_best: raise ValueError(...)
LabelCheck ==
    /\ pc = "check"
    /\ IF LabelsDiffer(ret["image_best"].liLabels, ret["oflow_best"].liLabels)
       THEN Raise("The rgb and flwo labels do not match")
       ELSE pc' = NextPc("check") /\ UNCHANGED err
    /\ UNCHANGED <<dirs, ret, fused, log, pr>>

\* faulty variant: every fusion adds the two best models
FusedModelsAllBest(sStep) == <<"image_best", "oflow_best">>

\* the models whose outputs a fusion step adds up
FusedModels(sStep) ==
    CASE sStep = "fuse_last"  -> <<"image_last", "oflow_last">>
      [] sStep = "fuse_oflow" -> <<"oflow_best", "oflow_last">>
      [] sStep = "fuse_all"   -> <<"image_best", "image_last", "oflow_best", "oflow_last">>

\* arSoftmax = sum; arProba = softmax; arPred = argmax; fAcc = mean; print
MainFuse(sStep) ==
    /\ pc = sStep
    /\ LET liModels == FusedModels(sStep)
           arSoftmax == SumArrays([k \in 1 .. Len(liModels) |-> ret[liModels[k]].arProba])
           arProba == Softmax(arSoftmax)
           arPred == ArgMaxRows(arProba)
           fAcc == Mean(ret["image_best"].liLabels, arPred)
       IN  /\ fused' = [fused EXCEPT ![sStep] = [arPred |-> arPred, fAcc |-> fAcc]]
           /\ log' = log \o PrintAcc(sStep, fAcc)
    /\ pc' = NextPc(sStep)
    /\ UNCHANGED <<dirs, ret, err, pr>>

FuseLast == MainFuse("fuse_last")
FuseOflow == MainFuse("fuse_oflow")
FuseAll == MainFuse("fuse_all")

-----------------------------------------------------------------------------
(* predict                                                                  *)

\* shapes of a feature array: (nFrames, nFeatures) and two that differ in it
FeatureShapes == { <<20, 1024>>, <<40, 1024>>, <<20>> }

\* keModel.input_shape: the batch dimension, then the per-sample shape
InputShapes == { <<"None">> \o tu : tu \in FeatureShapes }

\* probability vectors keModel.predict(arX)[0] can be
ProbaVectors == [1 .. nClasses -> 0 .. MaxProba]

\* faulty variant: only the numbers of dimensions are compared
ShapesDifferInRank(tuInputShape, tuShape) == Len(Tail(tuInputShape)) # Len(tuShape)

\* keModel.input_shape[1:] != arFeatures.shape
ShapesDiffer(tuInputShape, tuShape) == Tail(tuInputShape) # tuShape

\* results arProbas.argsort() can have: 0-based labels, ascending by probability,
\* equal probabilities in any order
ArgSorts(arProbas) ==
    { ar \in [1 .. Len(arProbas) -> 0 .. (Len(arProbas) - 1)] :
        /\ \A i, j \in 1 .. Len(ar) : i # j => ar[i] # ar[j]
        /\ \A i, j \in 1 .. Len(ar) : i < j => arProbas[ar[i] + 1] <= arProbas[ar[j] + 1] }

\* ar[-n:] for n >= 0; -0 is 0, so ar[-0:] is the whole array
SliceLast(ar, n) ==
    IF n = 0 \/ n >= Len(ar) THEN ar ELSE SubSeq(ar, Len(ar) - n + 1, Len(ar))

\* faulty variant: the order is left ascending
NotReversed(ar) == ar

\* ar[::-1]
Reversed(ar) == [i \in 1 .. Len(ar) |-> ar[Len(ar) + 1 - i]]

\* oClasses.dfClass.sClass[nLabel] + " " + oClasses.dfClass.sDetail[nLabel]
sClassString(nLabel) == << dfClass[nLabel + 1].sClass, " ", dfClass[nLabel + 1].sDetail >>

\* print("Top %d: [%3d] %s (confidence %.0f%%)" % (i+1, nLabel, sClass, fProba*100.))
TopLine(i, nLabel, fProba) ==
    [rank |-> i, nLabel |-> nLabel, sClass |-> sClassString(nLabel), conf |-> fProba * 100]

\* One call; arProbas is what the model returns for the sample, arSorted
\* what argsort returns for it.
predict(tuShape, tuInputShape, arProbas, nTop, arSorted) ==
    LET arTopLabels == Reversed(SliceLast(arSorted, nTop))
        arTopProbas == [i \in 1 .. Len(arTopLabels) |-> arProbas[arTopLabels[i] + 1]]
        nPrinted == IF nTop <= Len(arTopLabels) THEN nTop ELSE Len(arTopLabels)
        liPrinted == [i \in 1 .. nPrinted |-> TopLine(i, arTopLabels[i], arTopProbas[i])]
    IN  IF ShapesDiffer(tuInputShape, tuShape)
        THEN [raised |-> "Incorrect shapes", nInfer |-> 0, printed |-> <<>>, ret |-> NoTuple]
        ELSE IF nTop > Len(arTopLabels)
        THEN [raised |-> "IndexError", nInfer |-> 1, printed |-> liPrinted, ret |-> NoTuple]
        ELSE [raised |-> NoError, nInfer |-> 1, printed |-> liPrinted,
              ret |-> << arTopLabels[1], sClassString(arTopLabels[1]), arTopProbas[1] >>]

\* a caller runs predict on one sample
Predict ==
    /\ pr.pcp = "call"
    /\ \E arSorted \in ArgSorts(pr.arProbas) :
          LET r == predict(pr.tuShape, pr.tuInputShape, pr.arProbas, pr.nTop, arSorted)
          IN  pr' = [pr EXCEPT !.pcp = IF r.raised = NoError THEN "done" ELSE "error",
                               !.out = r]
    /\ UNCHANGED <<dirs, pc, ret, fused, log, err>>

PrIdle == [pcp |-> "idle"]

PrNoOut == [raised |-> NoError, nInfer |-> 0, printed |-> <<>>, ret |-> NoTuple]

\* the calls of predict: any feature array, model, probability vector and nTop
InitPredict ==
    /\ pr \in [pcp : {"call"}, tuShape : FeatureShapes, tuInputShape : InputShapes,
                arProbas : ProbaVectors, nTop : 0 .. MaxTop, out : {PrNoOut}]
    /\ dirs = [d \in FeatureDirs |-> <<>>]
    /\ pc = "idle"
    /\ ret = [m \in Models |-> NoRet]
    /\ fused = [s \in {"fuse_last", "fuse_oflow", "fuse_all"} |-> NoRet]
    /\ log = <<>>
    /\ err = NoError

NextPredict == Predict

SpecPredict == InitPredict /\ [][NextPredict]_vars

Init ==
    /\ dirs \in [FeatureDirs -> LabelLists]
    /\ pc = "image_best"
    /\ ret = [m \in Models |-> NoRet]
    /\ fused = [s \in {"fuse_last", "fuse_oflow", "fuse_all"} |-> NoRet]
    /\ log = <<>>
    /\ err = NoError
    /\ pr = PrIdle

Next ==
    \/ PredictImageBest
    \/ PredictImageLast
    \/ PredictOflowBest
    \/ PredictOflowLast
    \/ LabelCheck
    \/ FuseLast
    \/ FuseOflow
    \/ FuseAll

Spec == Init /\ [][Next]_vars

-----------------------------------------------------------------------------
(* Properties of main and predict_generator                                 *)

FusionSteps == {"fuse_last", "fuse_oflow", "fuse_all"}

Returned(sModel) == ret[sModel] # NoRet

Happened(sEv, sWhat) == \E i \in 1 .. Len(log) : log[i].ev = sEv /\ log[i].what = sWhat

PrintsOf(liLog) == SelectSeq(liLog, LAMBDA e : e.ev = "print")

LabelsMismatch ==
    /\ Returned("image_best")
    /\ Returned("oflow_best")
    /\ ret["image_best"].liLabels # ret["oflow_best"].liLabels

\* C1: when the label list of the image stream differs from the one of the
\* optical-flow stream, main never gets past the label check: no fusion is
\* computed or printed, and once all four models have returned the run ends
\* with the label-check error.
C1_LabelMismatchRaises ==
    LabelsMismatch =>
        /\ \A s \in FusionSteps : fused[s] = NoRet /\ ~Happened("print", s)
        /\ pc \in {"oflow_last", "check", "error"}
        /\ (pc = "error" /\ Returned("oflow_last"))
               => err = "The rgb and flwo labels do not match"

C1_Witness ==
    /\ LabelsMismatch
    /\ Len(ret["image_best"].liLabels) = Len(ret["oflow_best"].liLabels)
    /\ pc = "error"
    /\ err = "The rgb and flwo labels do not match"

\* the sum, over the models of a pairing, of the output for sample i, class c
C2_Logit(s, i, c) ==
    IF s = "fuse_last"
    THEN ret["image_last"].arProba[i][c + 1] + ret["oflow_last"].arProba[i][c + 1]
    ELSE IF s = "fuse_oflow"
    THEN ret["oflow_best"].arProba[i][c + 1] + ret["oflow_last"].arProba[i][c + 1]
    ELSE ret["image_best"].arProba[i][c + 1] + ret["image_last"].arProba[i][c + 1]
         + ret["oflow_best"].arProba[i][c + 1] + ret["oflow_last"].arProba[i][c + 1]

\* softmax of that sum, in thousandths
C2_Softmax(s, i, c) ==
    (npExp(C2_Logit(s, i, c)) * 1000)
        \div SumSeq([k \in 1 .. nClasses |-> npExp(C2_Logit(s, i, k - 1))])

\* C2: for each of the three pairings and every sample, the combined
\* prediction is the (first) class that maximises the softmax of the summed
\* outputs of the pairing's models, and the combined accuracy, as computed
\* and as printed, is the fraction of samples whose predicted class code
\* equals the ground-truth label.
C2_FusionIsSoftmaxOfSum ==
    \A s \in FusionSteps : fused[s] # NoRet =>
        LET liTruth == ret["image_best"].liLabels
            arPred == fused[s].arPred
            nHits == Cardinality({ i \in 1 .. Len(liTruth) :
                                     dfClass[arPred[i] + 1].sClass = liTruth[i] })
        IN  /\ Len(arPred) = Len(liTruth)
            /\ \A i \in 1 .. Len(arPred) :
                 /\ arPred[i] \in ClassIds
                 /\ \A c \in ClassIds : C2_Softmax(s, i, c) <= C2_Softmax(s, i, arPred[i])
                 /\ \A c \in ClassIds :
                      c < arPred[i] => C2_Softmax(s, i, c) < C2_Softmax(s, i, arPred[i])
            /\ fused[s].fAcc = [num |-> nHits, den |-> Len(liTruth)]
            /\ \E k \in 1 .. Len(log) :
                 /\ log[k].ev = "print"
                 /\ log[k].what = s
                 /\ log[k].val * 2 * Len(liTruth) <= nHits * 20000 + Len(liTruth)
                 /\ (log[k].val + 1) * 2 * Len(liTruth) > nHits * 20000 + Len(liTruth)

\* the two last models disagree on a sample and the four models together decide it
C2_Witness ==
    /\ pc = "done"
    /\ Len(ret["image_best"].liLabels) = MaxSamples
    /\ fused["fuse_last"].fAcc.num = 0
    /\ fused["fuse_oflow"].fAcc.num = 1
    /\ fused["fuse_all"].fAcc.num = MaxSamples
    /\ \E i \in 1 .. MaxSamples : C2_Logit("fuse_last", i, 0) = C2_Logit("fuse_last", i, 1)

\* C3: what predict_generator returns is consistent: one prediction, one
\* probability row and one label per sample, each prediction a class of
\* largest probability in its row, and fAccuracy the fraction of samples
\* whose predicted class code equals the label, between 0 and 1.
C3_ReturnConsistent ==
    \A m \in Models : Returned(m) =>
        LET r == ret[m]
            nSamples == Len(dirs[FeatureDir(m)])
        IN  /\ Len(r.arPred) = nSamples
            /\ Len(r.liLabels) = nSamples
            /\ Len(r.arProba) = nSamples
            /\ \A i \in 1 .. nSamples :
                 /\ r.arPred[i] \in ClassIds
                 /\ \A c \in ClassIds : r.arProba[i][c + 1] <= r.arProba[i][r.arPred[i] + 1]
            /\ r.fAcc.den = nSamples
            /\ r.fAcc.num = Cardinality({ i \in 1 .. nSamples :
                                            dfClass[r.arPred[i] + 1].sClass = r.liLabels[i] })
            /\ 0 <= r.fAcc.num
            /\ r.fAcc.num <= r.fAcc.den
            /\ r.fAcc.den > 0

C3_Witness ==
    /\ Returned("oflow_last")
    /\ ret["oflow_last"].fAcc = [num |-> 1, den |-> MaxSamples]
    /\ ret["image_best"].fAcc = [num |-> 0, den |-> 1]

\* C4: a feature directory with no samples makes predict_generator raise
\* after the model is loaded and before any inference on it; nothing is
\* returned.
C4_NoSamplesRaises ==
    \A m \in Models : (Happened("load", m) /\ Len(dirs[FeatureDir(m)]) = 0) =>
        /\ pc = "error"
        /\ err = "No feature files detected, prediction stopped"
        /\ ret[m] = NoRet
        /\ ~Happened("infer", m)
        /\ log[Len(log)] = [ev |-> "load", what |-> m, val |-> 0]

C4_Witness ==
    /\ Happened("load", "oflow_best")
    /\ dirs["oflow"] = <<>>
    /\ Len(dirs["image"]) = MaxSamples
    /\ err = "No feature files detected, prediction stopped"

\* C5: an inference that yields a number of rows different from nSamples
\* makes predict_generator raise with no accuracy computed or printed, and
\* every accuracy returned is over as many predictions as there are labels.
C5_CountMismatchRaises ==
    /\ \A k \in 1 .. Len(log) :
         (log[k].ev = "infer" /\ log[k].val # Len(dirs[FeatureDir(log[k].what)])) =>
            /\ pc = "error"
            /\ err = "Unexpected number of predictions"
            /\ ret[log[k].what] = NoRet
            /\ ~Happened("print", log[k].what)
            /\ k = Len(log)
    /\ \A m \in Models : Returned(m) =>
         /\ Len(ret[m].arPred) = Len(ret[m].liLabels)
         /\ ret[m].fAcc.den = Len(ret[m].liLabels)

\* more rows than samples, in the last of the four runs
C5_Witness ==
    /\ Len(log) > 0
    /\ log[Len(log)].ev = "infer"
    /\ log[Len(log)].what = "oflow_last"
    /\ log[Len(log)].val > Len(dirs["oflow"])
    /\ err = "Unexpected number of predictions"

IsPrefix(liA, liB) == Len(liA) <= Len(liB) /\ liA = SubSeq(liB, 1, Len(liA))

C9_Order ==
    << <<"load", "image_best">>, <<"infer", "image_best">>, <<"print", "image_best">>,
       <<"load", "image_last">>, <<"infer", "image_last">>, <<"print", "image_last">>,
       <<"load", "oflow_best">>, <<"infer", "oflow_best">>, <<"print", "oflow_best">>,
       <<"load", "oflow_last">>, <<"infer", "oflow_last">>, <<"print", "oflow_last">>,
       <<"print", "fuse_last">>, <<"print", "fuse_oflow">>, <<"print", "fuse_all">> >>

\* number of events main has logged when it stands before a statement
C9_EventsBefore(p) ==
    CASE p = "image_best" -> 0
      [] p = "image_last" -> 3
      [] p = "oflow_best" -> 6
      [] p = "oflow_last" -> 9
      [] p = "check"      -> 12
      [] p = "fuse_last"  -> 12
      [] p = "fuse_oflow" -> 13
      [] p = "fuse_all"   -> 14
      [] p = "done"       -> 15

\* C9: main runs its steps one at a time in one fixed order: load, infer
\* and print for image-best, image-last, oflow-best, oflow-last, then the
\* label check, then the three combined accuracies; a run that finishes
\* has printed exactly the seven accuracies, in this order.
C9_FixedOrder ==
    /\ IsPrefix([k \in 1 .. Len(log) |-> <<log[k].ev, log[k].what>>], C9_Order)
    /\ pc # "error" => Len(log) = C9_EventsBefore(pc)
    /\ pc = "done" =>
         /\ err = NoError
         /\ [k \in 1 .. Len(PrintsOf(log)) |-> PrintsOf(log)[k].what]
              = << "image_best", "image_last", "oflow_best", "oflow_last",
                   "fuse_last", "fuse_oflow", "fuse_all" >>

C9_Witness == pc = "done" /\ Len(log) = Len(C9_Order)

\* C10: the run is fail-fast: a raised error puts the run in the error
\* state, the raising step prints no accuracy, and no step follows it, so
\* nothing is retried, loaded or printed after the error.
C10_FailFast ==
    /\ [](err # NoError <=> pc = "error")
    /\ [][/\ err = NoError
          /\ err' # NoError => PrintsOf(log') = PrintsOf(log)]_vars

C10_Witness ==
    /\ pc = "error"
    /\ err = "Unexpected number of predictions"
    /\ Len(PrintsOf(log)) = 3

-----------------------------------------------------------------------------
(* Properties of predict                                                    *)

PredictCalled == pr.pcp \in {"done", "error"}

\* C6: a feature array whose shape differs from the model's per-sample input
\* shape makes predict raise, with no inference run and no line printed.
C6_ShapeMismatchRaises ==
    (PredictCalled /\ Tail(pr.tuInputShape) # pr.tuShape) =>
        /\ pr.pcp = "error"
        /\ pr.out.raised = "Incorrect shapes"
        /\ pr.out.nInfer = 0
        /\ pr.out.printed = <<>>
        /\ pr.out.ret = NoTuple

\* same rank, different number of frames
C6_Witness ==
    /\ pr.pcp = "error"
    /\ pr.tuShape = <<40, 1024>>
    /\ pr.tuInputShape = <<"None", 20, 1024>>

\* predict printed the nTop most probable labels, most probable first, and
\* returned the most probable one
C7_TopPrinted ==
    LET liOut == pr.out.printed
        arP == pr.arProbas
        liShown == { liOut[i].nLabel : i \in 1 .. Len(liOut) }
    IN  /\ pr.pcp = "done"
        /\ Len(liOut) = pr.nTop
        /\ \A i \in 1 .. Len(liOut) :
             /\ liOut[i].rank = i
             /\ liOut[i].nLabel \in ClassIds
             /\ liOut[i].conf = arP[liOut[i].nLabel + 1] * 100
             /\ liOut[i].sClass = << dfClass[liOut[i].nLabel + 1].sClass, " ",
                                     dfClass[liOut[i].nLabel + 1].sDetail >>
        /\ Cardinality(liShown) = pr.nTop
        /\ \A i, j \in 1 .. Len(liOut) : i < j => liOut[i].conf >= liOut[j].conf
        /\ \A c \in ClassIds \ liShown :
             \A i \in 1 .. Len(liOut) : arP[c + 1] * 100 <= liOut[i].conf
        /\ pr.out.ret # NoTuple
        /\ pr.out.ret[1] \in ClassIds
        /\ \A c \in ClassIds : arP[c + 1] <= arP[pr.out.ret[1] + 1]
        /\ pr.out.ret[2] = << dfClass[pr.out.ret[1] + 1].sClass, " ",
                              dfClass[pr.out.ret[1] + 1].sDetail >>
        /\ pr.out.ret[3] = arP[pr.out.ret[1] + 1]
        /\ pr.nTop > 0 => pr.out.ret[1] = liOut[1].nLabel

\* C7 as claimed: for any probability vector and any nTop, predict prints
\* exactly the nTop most probable labels in non-increasing order of
\* probability and returns the first of them with its class string and
\* probability.
C7_AnyTop ==
    (PredictCalled /\ Tail(pr.tuInputShape) = pr.tuShape) => C7_TopPrinted

\* C7 as amended: the same, for any nTop from 0 to the number of classes.
C7_TopWithinClasses ==
    (PredictCalled /\ Tail(pr.tuInputShape) = pr.tuShape /\ pr.nTop <= Len(pr.arProbas))
        => C7_TopPrinted

C7_Witness ==
    /\ pr.pcp = "done"
    /\ pr.nTop = Len(pr.arProbas)
    /\ pr.arProbas[1] < pr.arProbas[2]
    /\ Len(pr.out.printed) = pr.nTop

====
